---------------------------- MODULE Spec2Model ----------------------------
(***************************************************************************)
(* Model of the Jadard JD9365TN DSI panel driver                           *)
(* (src/panel-jadard-jd9365tn.c).                                          *)
(*                                                                         *)
(* Every panel hook is a straight-line script of GPIO writes, sleeps and   *)
(* command-bus calls.  A script is written here as the sequence of its     *)
(* statements (PrepareProg, InitProg, DisableProg, UnprepareProg); the     *)
(* actions execute one statement at a time and append what became visible  *)
(* outside the driver (a GPIO write, a sleep, a bus transaction) to `log'. *)
(* `log' is cleared when the host enters prepare, disable or unprepare.    *)
(*                                                                         *)
(* The *_multi bus helpers and mipi_dsi_msleep come from                   *)
(* <drm/drm_mipi_dsi.h> (included at line 7).  Their contract: a call made *)
(* with a non-zero dsi_ctx.accum_err does nothing; otherwise the           *)
(* transaction is issued and a failure is stored in accum_err.             *)
(***************************************************************************)
EXTENDS Integers, Sequences, FiniteSets, TLC

VARIABLES
  bound,                \* "unbound" | "adding" (inside probe) | "bound"
  registered,           \* the panel is on the host's panel list
  desc,                 \* jadard->desc
  gpio,                 \* value last driven on reset, vdd, vccio, dbg
  complex_dbg_pattern,  \* the module parameter
  host,                 \* lifecycle position kept by the host
  op,                   \* hook running, or the last one that returned
  pc,                   \* index of the next statement of op; 0 = returned
  accum_err,            \* dsi_ctx.accum_err of the running hook (0 outside)
  ret,                  \* value returned by the last hook (0 while one runs)
  log,                  \* externally visible events of the last hook
  modes,                \* connector's probed-mode list
  display_info          \* connector->display_info (width_mm, height_mm)

vars == <<bound, registered, desc, gpio, complex_dbg_pattern,
          host, op, pc, accum_err, ret, log, modes, display_info>>

-----------------------------------------------------------------------------
(* Bounds of the model *)

\* GetModes is not called any more once the connector holds this many modes.
MaxModes == 1

-----------------------------------------------------------------------------
(* Program constants *)

ENOMEM == 12

\* Errors a bus transaction, a lookup or an attach can report (-EIO,
\* -ETIMEDOUT); 0 is success.
BusErrs == {-5, -110}

\* .clock: a constant expression of C ints; every intermediate value stays
\* below 2^31 (the largest is 43008000) and the division truncates.
DescClock == ((480 + 20 + 20 + 40) * (1080 + 180 + 2 + 18) * 60) \div 1000

DescMode ==
  [ clock       |-> DescClock,
    hdisplay    |-> 480,
    hsync_start |-> 480 + 20,
    hsync_end   |-> 480 + 20 + 20,
    htotal      |-> 480 + 20 + 20 + 40,
    vdisplay    |-> 1080,
    vsync_start |-> 1080 + 180,
    vsync_end   |-> 1080 + 180 + 2,
    vtotal      |-> 1080 + 180 + 2 + 18,
    width_mm    |-> 42,
    height_mm   |-> 95,
    name        |-> "" ]

\* A jadard_panel_desc: the fixed mode, lanes and format plus the flags and
\* delays the hooks read.
MkDesc(lp11, rbpo, d1, d2, d3, d4, d5) ==
  [ mode   |-> DescMode,
    lanes  |-> 2,
    format |-> "MIPI_DSI_FMT_RGB888",
    lp11_before_reset                     |-> lp11,
    reset_before_power_off_vcioo          |-> rbpo,
    vcioo_to_lp11_delay_ms                |-> d1,
    lp11_to_reset_delay_ms                |-> d2,
    backlight_off_to_display_off_delay_ms |-> d3,
    display_off_to_enter_sleep_delay_ms   |-> d4,
    enter_sleep_to_reset_down_delay_ms    |-> d5 ]

\* The one descriptor the driver ships: every field it does not name is 0.
shenzen_z34014_p30_365t_y1_desc == MkDesc(FALSE, FALSE, 0, 0, 0, 0, 0)

\* Descriptors the hooks are run against: the shipped one, and others that
\* exercise the flags and delays of struct jadard_panel_desc.
DescSet ==
  { shenzen_z34014_p30_365t_y1_desc,
    MkDesc(TRUE,  FALSE, 0,  0,  0,  0,  0),
    MkDesc(FALSE, TRUE,  0,  0,  20, 0,  100),
    MkDesc(TRUE,  TRUE,  5,  10, 50, 20, 120),
    MkDesc(TRUE,  FALSE, 0,  10, 0,  20, 0) }

\* Values of the module parameter (an int; only zero / non-zero is read).
DbgPatterns == {0, 1}

\* The register writes of the init routine, in order: command byte, then
\* payload.
InitCmds ==
  << <<223, 144, 105, 249>>,
     <<222, 0>>,
     <<204, 49>>,
     <<178, 1, 35, 96, 136, 36, 90, 7>>,
     <<187, 2, 26, 51, 90, 60, 68, 68>>,
     <<189, 0, 208, 0>>,
     <<191, 80, 60, 51, 195>>,
     <<192, 1, 173, 1, 173>>,
     <<203, 127, 122, 117, 108, 99, 100, 87, 92, 70, 92, 87, 83, 107, 84,
         86, 68, 62, 47, 29, 20, 16, 127, 122, 117, 108, 99, 100, 87, 92,
         70, 92, 87, 83, 107, 84, 86, 68, 62, 47, 29, 20, 16, 0>>,
     <<195, 59, 1, 0, 3, 8, 8, 76, 5, 78, 5, 78, 1, 72, 1, 72, 1, 72, 6, 74,
         6, 9, 6, 9, 6, 9>>,
     <<196, 1, 0, 3, 8, 8, 76, 5, 78, 5, 78, 1, 72, 1, 72, 1, 72, 6, 74, 6,
         9, 6, 9, 6, 9>>,
     <<197, 3, 3, 8, 8, 76, 5, 78, 5, 78, 1, 72, 1, 72, 1, 72, 6, 74, 6, 9,
         6, 9, 6, 9>>,
     <<198, 0, 89, 0, 180, 0, 19, 40, 130, 0, 0, 0, 1, 0, 1, 0, 0, 0, 0, 0,
         1, 0, 0, 1>>,
     <<200, 43, 28, 120>>,
     <<205, 6, 2>>,
     <<206, 0, 0, 0, 12, 12, 12, 12, 12, 12, 12, 12, 0, 0, 0, 0, 0, 0, 0, 0,
         0, 0, 0, 0>>,
     <<207, 0, 0, 0, 48, 48, 48, 48, 48, 48, 48, 48, 0, 0, 0, 0, 0, 0, 0, 0,
         0, 0, 0, 0, 0, 0, 0, 0, 0, 0, 0, 0, 0, 0, 0, 0, 0, 0, 0, 0, 0, 0,
         0, 0, 0, 0, 255, 255, 255, 255, 255, 63>>,
     <<208, 0, 31, 31, 17, 36, 36, 11, 9, 7, 5, 1, 31, 31, 31, 31, 31, 31,
         31, 31, 31, 31, 31, 31, 0, 0, 0, 0, 0, 0>>,
     <<209, 0, 31, 31, 16, 36, 36, 10, 8, 6, 4, 0, 31, 31, 31, 31, 31, 31,
         31, 31, 31, 31, 31, 31, 0, 0, 0, 0, 0, 0>>,
     <<210, 0, 31, 31, 0, 36, 36, 8, 10, 4, 6, 16, 31, 31, 31, 31, 31, 31,
         31, 31, 31, 31, 31, 31>>,
     <<211, 0, 31, 31, 0, 36, 36, 9, 11, 5, 7, 17, 31, 31, 31, 31, 31, 31,
         31, 31, 31, 31, 31, 31>>,
     <<212, 0, 32, 12, 0, 10, 0, 12, 0, 0, 0, 0, 0, 0, 0, 0, 0, 0, 6, 3, 3,
         0, 129, 4, 76, 0, 0, 0, 0, 0, 0, 0, 0, 0, 0, 0, 0, 0, 4, 0, 0, 0,
         0, 0, 0, 0, 0, 0, 0, 0, 0, 0, 128, 9, 0, 10, 6, 85, 6, 13, 0, 0, 0,
         0, 0, 0, 0, 0, 2, 0, 0, 0, 0, 0, 0, 0, 0, 0, 0, 0, 64, 0, 0, 0, 0,
         0, 32, 0, 0>>,
     <<213, 2, 16, 1, 0, 0, 0, 0, 0, 0, 224, 0, 0, 0, 7, 50, 90, 0, 0, 5, 0,
         1, 0, 48, 116, 0, 14, 0, 8, 0, 113, 32, 4, 16, 4, 6, 0, 0, 0, 0, 0,
         0, 0, 0, 255, 255, 0, 0, 31, 255, 0, 0, 0, 31, 255, 0, 255, 255,
         255, 255, 255, 255, 0>>,
     <<215, 0, 52, 52, 52, 52, 52, 52, 52, 52, 52, 52, 52, 52, 52, 52, 52,
         52>>,
     <<222, 1>>,
     <<185, 0, 255, 255, 4>>,
     <<199, 27, 20, 14>>,
     <<222, 2>>,
     <<187, 0, 0, 0, 0, 0, 104, 105>>,
     <<189, 27>>,
     <<193, 0, 64, 0, 2, 2, 2, 2, 127, 0, 0, 0, 0>>,
     <<195, 32, 255>>,
     <<196, 0, 17, 7, 0, 2>>,
     <<198, 73, 0>>,
     <<229, 0, 230, 229, 2, 39, 66, 39, 66, 9, 4, 0, 64, 0, 33, 0, 0, 0, 0,
         0, 0, 0, 0, 0, 0>>,
     <<230, 16, 9, 173, 0, 0, 0>>,
     <<236, 7, 7, 64, 0, 34, 2, 0, 255, 8, 124, 0, 0, 0, 0>>,
     <<222, 3>>,
     <<209, 0, 0, 33, 255, 0>>,
     <<222, 0>> >>

NumInitCmds == Len(InitCmds)

-----------------------------------------------------------------------------
(* Statements and events *)

\* A statement of a hook, and an event of the log, are records of one shape:
\* k the kind, a a name (GPIO line, bus call, message), v and w numbers.
Rec(k, a, v, w) == [k |-> k, a |-> a, v |-> v, w |-> w]

Gpio(line, val)    == Rec("gpio", line, val, 0)         \* gpiod_set_value
Msleep(ms)         == Rec("msleep", "", ms, 0)          \* msleep
Usleep(lo, hi)     == Rec("usleep_range", "", lo, hi)   \* usleep_range
PrInfo(msg)        == Rec("pr_info", msg, 0, 0)         \* pr_info
PrInfoInt(msg, n)  == Rec("pr_info", msg, n, 0)         \* pr_info with a %d
DcsNop             == Rec("dcs_nop", "", 0, 0)          \* mipi_dsi_dcs_nop, return on error
CtxInit            == Rec("ctx_init", "", 0, 0)         \* dsi_ctx = { .dsi = ... }
Multi(call, i)     == Rec("multi", call, 0, i)          \* mipi_dsi_*_multi(&dsi_ctx, ...)
MultiMsleep(ms)    == Rec("multi_msleep", "", ms, 0)    \* mipi_dsi_msleep(&dsi_ctx, ms)
PrErrIfErr(msg)    == Rec("pr_err_if_err", msg, 0, 0)   \* if (accum_err) pr_err
ReturnAccum        == Rec("return_accum", "", 0, 0)     \* return dsi_ctx.accum_err

\* Event: the bus transaction `call' (register write number i, or 0) was
\* issued and reported r.
Bus(call, i, r) == Rec("bus", call, r, i)

\* <<s>> when the condition of an `if' holds, nothing otherwise.
If(cond, s) == IF cond THEN s ELSE <<>>

\* The register writes, mipi_dsi_dcs_write_seq_multi 1 .. NumInitCmds.
InitWrites == [i \in 1..NumInitCmds |-> Multi("dcs_write_seq", i)]

\* Variant of the init routine, a faulty one: the first dbg pulse is
\* issued only when complex_dbg_pattern is set.
InitProg_GatedPulse ==
  << PrInfo("Jadard init start sending"),
     PrInfoInt("Jadard complex_dbg_pattern: %d", complex_dbg_pattern) >>
  \o If(complex_dbg_pattern # 0,
        << PrInfo("Triggering DBG GPIO for testing"),
           Gpio("dbg", 1),
           Usleep(1000, 2000),
           Gpio("dbg", 0),
           PrInfo("Jadard execute extra gpio triggering"),
           Usleep(1000, 2000),
           Gpio("dbg", 1),
           Usleep(1000, 2000),
           Gpio("dbg", 0) >>)
  \o << CtxInit >>
  \o InitWrites
  \o << Multi("set_tear_on", 0),
        MultiMsleep(30),
        Multi("exit_sleep_mode", 0),
        MultiMsleep(120),
        Multi("set_display_on", 0),
        MultiMsleep(10),
        PrErrIfErr("MIPI init code error!"),
        PrInfo("Jadard init finished") >>

\* Variant of the init routine, a faulty one: no wait after the
\* tearing-signal call.
InitProg_NoTearSleep ==
  << PrInfo("Jadard init start sending"),
     PrInfo("Triggering DBG GPIO for testing"),
     Gpio("dbg", 1),
     Usleep(1000, 2000),
     Gpio("dbg", 0),
     PrInfoInt("Jadard complex_dbg_pattern: %d", complex_dbg_pattern) >>
  \o If(complex_dbg_pattern # 0,
        << PrInfo("Jadard execute extra gpio triggering"),
           Usleep(1000, 2000),
           Gpio("dbg", 1),
           Usleep(1000, 2000),
           Gpio("dbg", 0) >>)
  \o << CtxInit >>
  \o InitWrites
  \o << Multi("set_tear_on", 0),
        Multi("exit_sleep_mode", 0),
        MultiMsleep(120),
        Multi("set_display_on", 0),
        MultiMsleep(10),
        PrErrIfErr("MIPI init code error!"),
        PrInfo("Jadard init finished") >>

\* shenzen_z34014_p30_365t_y1_init_cmds
InitProg ==
  << PrInfo("Jadard init start sending"),
     PrInfo("Triggering DBG GPIO for testing"),
     Gpio("dbg", 1),
     Usleep(1000, 2000),
     Gpio("dbg", 0),
     PrInfoInt("Jadard complex_dbg_pattern: %d", complex_dbg_pattern) >>
  \o If(complex_dbg_pattern # 0,
        << PrInfo("Jadard execute extra gpio triggering"),
           Usleep(1000, 2000),
           Gpio("dbg", 1),
           Usleep(1000, 2000),
           Gpio("dbg", 0) >>)
  \o << CtxInit >>
  \o InitWrites
  \o << Multi("set_tear_on", 0),
        MultiMsleep(30),
        Multi("exit_sleep_mode", 0),
        MultiMsleep(120),
        Multi("set_display_on", 0),
        MultiMsleep(10),
        PrErrIfErr("MIPI init code error!"),
        PrInfo("Jadard init finished") >>

\* Variant of jadard_prepare, a faulty one: the controller is given
\* 120 ms instead of 130 ms after the reset pulse.
PrepareProg_ShortBoot ==
  << Gpio("vccio", 1),
     Gpio("vdd", 1) >>
  \o If(desc.vcioo_to_lp11_delay_ms # 0, << Msleep(desc.vcioo_to_lp11_delay_ms) >>)
  \o If(desc.lp11_before_reset, << DcsNop >>)
  \o If(desc.lp11_to_reset_delay_ms # 0, << Msleep(desc.lp11_to_reset_delay_ms) >>)
  \o << Gpio("reset", 0),
        Msleep(5),
        Gpio("reset", 1),
        Msleep(10),
        Gpio("reset", 0),
        Msleep(120) >>
  \o InitProg
  \o << ReturnAccum >>

\* jadard_prepare; `ret = init(); if (ret) return ret; return 0' returns the
\* init routine's dsi_ctx.accum_err in both branches.
PrepareProg ==
  << Gpio("vccio", 1),
     Gpio("vdd", 1) >>
  \o If(desc.vcioo_to_lp11_delay_ms # 0, << Msleep(desc.vcioo_to_lp11_delay_ms) >>)
  \o If(desc.lp11_before_reset, << DcsNop >>)
  \o If(desc.lp11_to_reset_delay_ms # 0, << Msleep(desc.lp11_to_reset_delay_ms) >>)
  \o << Gpio("reset", 0),
        Msleep(5),
        Gpio("reset", 1),
        Msleep(10),
        Gpio("reset", 0),
        Msleep(130) >>
  \o InitProg
  \o << ReturnAccum >>

\* Variant of jadard_disable, a faulty one: the three waits are made
\* without testing the configured delay.
DisableProg_SleepAlways ==
  << CtxInit,
     MultiMsleep(desc.backlight_off_to_display_off_delay_ms),
     Multi("set_display_off", 0),
     MultiMsleep(desc.display_off_to_enter_sleep_delay_ms),
     Multi("enter_sleep_mode", 0),
     MultiMsleep(desc.enter_sleep_to_reset_down_delay_ms),
     ReturnAccum >>

\* Variant of jadard_disable, a faulty one: core power is cut before
\* the shutdown commands are sent.
DisableProg_PowerDown ==
  << CtxInit,
     Gpio("vdd", 0) >>
  \o If(desc.backlight_off_to_display_off_delay_ms # 0,
        << MultiMsleep(desc.backlight_off_to_display_off_delay_ms) >>)
  \o << Multi("set_display_off", 0) >>
  \o If(desc.display_off_to_enter_sleep_delay_ms # 0,
        << MultiMsleep(desc.display_off_to_enter_sleep_delay_ms) >>)
  \o << Multi("enter_sleep_mode", 0) >>
  \o If(desc.enter_sleep_to_reset_down_delay_ms # 0,
        << MultiMsleep(desc.enter_sleep_to_reset_down_delay_ms) >>)
  \o << ReturnAccum >>

\* jadard_disable
DisableProg ==
  << CtxInit >>
  \o If(desc.backlight_off_to_display_off_delay_ms # 0,
        << MultiMsleep(desc.backlight_off_to_display_off_delay_ms) >>)
  \o << Multi("set_display_off", 0) >>
  \o If(desc.display_off_to_enter_sleep_delay_ms # 0,
        << MultiMsleep(desc.display_off_to_enter_sleep_delay_ms) >>)
  \o << Multi("enter_sleep_mode", 0) >>
  \o If(desc.enter_sleep_to_reset_down_delay_ms # 0,
        << MultiMsleep(desc.enter_sleep_to_reset_down_delay_ms) >>)
  \o << ReturnAccum >>

\* Variant of jadard_unprepare, a faulty one: power is cut before the
\* reset line is driven.
UnprepareProg_PowerFirst ==
  << Gpio("vdd", 0),
     Gpio("vccio", 0),
     Gpio("reset", 0),
     Msleep(120) >>
  \o If(desc.reset_before_power_off_vcioo,
        << Gpio("reset", 1),
           Usleep(1000, 2000) >>)
  \o << Rec("return", "", 0, 0) >>

\* jadard_unprepare; dsi_ctx is not used, so the value returned is the 0 of
\* `return 0'.
UnprepareProg ==
  << Gpio("reset", 0),
     Msleep(120) >>
  \o If(desc.reset_before_power_off_vcioo,
        << Gpio("reset", 1),
           Usleep(1000, 2000) >>)
  \o << Gpio("vdd", 0),
        Gpio("vccio", 0),
        Rec("return", "", 0, 0) >>

\* jadard_funcs: the script of the hook that is running.
Prog ==
  CASE op = "prepare"   -> PrepareProg
    [] op = "disable"   -> DisableProg
    [] op = "unprepare" -> UnprepareProg
    [] OTHER            -> <<>>

Running == bound = "bound" /\ op \in {"prepare", "disable", "unprepare"} /\ pc > 0

Stmt == Prog[pc]

Idle == pc = 0

-----------------------------------------------------------------------------
(* The host *)

\* Where the host stands after hook o returned r: Prepare, then Disable,
\* then Unprepare; a failed Prepare may also be retried.
HostAfter(o, r) ==
  CASE o = "prepare"   -> IF r = 0 THEN "prepared" ELSE "failed"
    [] o = "disable"   -> "disabled"
    [] o = "unprepare" -> "off"
    [] OTHER           -> host

\* The host enters hook o: its script starts with an empty log.
Enter(o) ==
  /\ bound = "bound"
  /\ Idle
  /\ op' = o
  /\ pc' = 1
  /\ log' = <<>>
  /\ ret' = 0
  /\ UNCHANGED <<bound, registered, desc, gpio, complex_dbg_pattern, host,
                 accum_err, modes, display_info>>

CallPrepare   == host \in {"off", "failed"} /\ Enter("prepare")
CallDisable   == host \in {"prepared", "failed"} /\ Enter("disable")
CallUnprepare == host = "disabled" /\ Enter("unprepare")

\* A write to /sys/module/.../parameters/complex_dbg_pattern between hooks.
SetParam ==
  /\ Idle
  /\ \E v \in DbgPatterns \ {complex_dbg_pattern} : complex_dbg_pattern' = v
  /\ UNCHANGED <<bound, registered, desc, gpio, host, op, pc,
                 accum_err, ret, log, modes, display_info>>

-----------------------------------------------------------------------------
(* Statements *)

Next1 == pc' = pc + 1

\* The running hook returns r; its dsi_ctx goes out of scope.
Return(r) ==
  /\ ret' = r
  /\ pc' = 0
  /\ host' = HostAfter(op, r)
  /\ accum_err' = 0

Fixed == UNCHANGED <<bound, registered, desc, complex_dbg_pattern,
                     op, modes, display_info>>

\* gpiod_set_value(line, val)
GpioStep ==
  /\ Running /\ Stmt.k = "gpio"
  /\ gpio' = [gpio EXCEPT ![Stmt.a] = Stmt.v]
  /\ log' = Append(log, Stmt)
  /\ Next1
  /\ Fixed /\ UNCHANGED <<host, accum_err, ret>>

\* msleep(ms) and usleep_range(lo, hi)
SleepStep ==
  /\ Running /\ Stmt.k \in {"msleep", "usleep_range"}
  /\ log' = Append(log, Stmt)
  /\ Next1
  /\ Fixed /\ UNCHANGED <<gpio, host, accum_err, ret>>

\* pr_info(msg)
PrInfoStep ==
  /\ Running /\ Stmt.k = "pr_info"
  /\ log' = Append(log, Stmt)
  /\ Next1
  /\ Fixed /\ UNCHANGED <<gpio, host, accum_err, ret>>

\* Variant of the pre-reset transaction, a faulty one: a failure cuts
\* power again before returning.
NopStep_Rollback ==
  /\ Running /\ Stmt.k = "dcs_nop"
  /\ \E r \in {0} \cup BusErrs :
       IF r # 0
         THEN /\ log' = log \o << Bus("dcs_nop", 0, r), Gpio("vdd", 0), Gpio("vccio", 0) >>
              /\ gpio' = [gpio EXCEPT !["vdd"] = 0, !["vccio"] = 0]
              /\ Return(r)
         ELSE /\ log' = Append(log, Bus("dcs_nop", 0, r))
              /\ Next1
              /\ UNCHANGED <<gpio, host, ret, accum_err>>
  /\ Fixed

\* ret = mipi_dsi_dcs_nop(jadard->dsi); if (ret) return ret;
NopStep ==
  /\ Running /\ Stmt.k = "dcs_nop"
  /\ \E r \in {0} \cup BusErrs :
       /\ log' = Append(log, Bus("dcs_nop", 0, r))
       /\ IF r # 0
            THEN Return(r)
            ELSE Next1 /\ UNCHANGED <<host, ret, accum_err>>
  /\ Fixed /\ UNCHANGED gpio

\* struct mipi_dsi_multi_context dsi_ctx = { .dsi = jadard->dsi };
CtxInitStep ==
  /\ Running /\ Stmt.k = "ctx_init"
  /\ accum_err' = 0
  /\ Next1
  /\ Fixed /\ UNCHANGED <<gpio, host, ret, log>>

\* Variant of the multi call, a faulty one: the transaction is issued
\* even when an error is stored, and the first error is kept.
MultiStep_KeepGoing ==
  /\ Running /\ Stmt.k = "multi"
  /\ \E r \in {0} \cup BusErrs :
       /\ accum_err' = IF accum_err # 0 THEN accum_err ELSE r
       /\ log' = Append(log, Bus(Stmt.a, Stmt.w, r))
  /\ Next1
  /\ Fixed /\ UNCHANGED <<gpio, host, ret>>

\* A mipi_dsi_*_multi(&dsi_ctx, ...) call: nothing once an error is stored,
\* else one bus transaction whose failure is stored in accum_err.
MultiStep ==
  /\ Running /\ Stmt.k = "multi"
  /\ IF accum_err # 0
       THEN UNCHANGED <<accum_err, log>>
       ELSE \E r \in {0} \cup BusErrs :
              /\ accum_err' = r
              /\ log' = Append(log, Bus(Stmt.a, Stmt.w, r))
  /\ Next1
  /\ Fixed /\ UNCHANGED <<gpio, host, ret>>

\* mipi_dsi_msleep(&dsi_ctx, ms): sleeps only while no error is stored.
MultiMsleepStep ==
  /\ Running /\ Stmt.k = "multi_msleep"
  /\ IF accum_err # 0
       THEN UNCHANGED log
       ELSE log' = Append(log, Msleep(Stmt.v))
  /\ Next1
  /\ Fixed /\ UNCHANGED <<gpio, host, accum_err, ret>>

\* if (dsi_ctx.accum_err) pr_err(msg);
PrErrStep ==
  /\ Running /\ Stmt.k = "pr_err_if_err"
  /\ IF accum_err # 0
       THEN log' = Append(log, Rec("pr_err", Stmt.a, 0, 0))
       ELSE UNCHANGED log
  /\ Next1
  /\ Fixed /\ UNCHANGED <<gpio, host, accum_err, ret>>

\* return dsi_ctx.accum_err;
ReturnAccumStep ==
  /\ Running /\ Stmt.k = "return_accum"
  /\ Return(accum_err)
  /\ Fixed /\ UNCHANGED <<gpio, log>>

\* return 0;
ReturnStep ==
  /\ Running /\ Stmt.k = "return"
  /\ Return(Stmt.v)
  /\ Fixed /\ UNCHANGED <<gpio, log>>

-----------------------------------------------------------------------------
(* Mode reporting *)

\* drm_mode_set_name: "<hdisplay>x<vdisplay>" (the mode is not interlaced).
drm_mode_set_name(m) ==
  [m EXCEPT !.name = ToString(m.hdisplay) \o "x" \o ToString(m.vdisplay)]

CallGetModes ==
  /\ bound = "bound"
  /\ Idle
  /\ Len(modes) < MaxModes
  /\ op' = "get_modes"
  /\ pc' = 1
  /\ UNCHANGED <<bound, registered, desc, gpio,
                 complex_dbg_pattern, host, accum_err, ret, log, modes,
                 display_info>>

\* Variant of jadard_get_modes, a faulty one: width and height are
\* stored crosswise in display_info.
GetModesBody_Swapped ==
  /\ bound = "bound" /\ op = "get_modes" /\ pc = 1
  /\ \E allocated \in BOOLEAN :
       IF ~allocated
         THEN /\ ret' = -ENOMEM
              /\ UNCHANGED <<modes, display_info>>
         ELSE LET mode == drm_mode_set_name(desc.mode) IN
              /\ modes' = Append(modes, mode)
              /\ display_info' = [width_mm  |-> mode.height_mm,
                                  height_mm |-> mode.width_mm]
              /\ ret' = 1
  /\ pc' = 0
  /\ UNCHANGED <<bound, registered, desc, gpio,
                 complex_dbg_pattern, host, op, accum_err, log>>

\* jadard_get_modes: drm_mode_duplicate yields a copy of the descriptor's
\* mode, or NULL when the allocation fails.
GetModesBody ==
  /\ bound = "bound" /\ op = "get_modes" /\ pc = 1
  /\ \E allocated \in BOOLEAN :
       IF ~allocated
         THEN /\ ret' = -ENOMEM
              /\ UNCHANGED <<modes, display_info>>
         ELSE LET mode == drm_mode_set_name(desc.mode) IN
              /\ modes' = Append(modes, mode)
              /\ display_info' = [width_mm  |-> mode.width_mm,
                                  height_mm |-> mode.height_mm]
              /\ ret' = 1
  /\ pc' = 0
  /\ UNCHANGED <<bound, registered, desc, gpio,
                 complex_dbg_pattern, host, op, accum_err, log>>

-----------------------------------------------------------------------------
(* Attach and detach *)

\* The places jadard_dsi_probe can fail before drm_panel_add, in order.
ProbeSteps == <<"kzalloc", "reset", "vdd", "vccio", "dbg", "orientation", "backlight">>

\* Initial level of each devm_gpiod_get (GPIOD_OUT_HIGH / GPIOD_OUT_LOW).
GpioInit == [reset |-> 1, vdd |-> 0, vccio |-> 0, dbg |-> 1]

\* GPIO values after the first n probe steps succeeded: each line acquired
\* takes its initial level.
GpioAfter(n) ==
  [l \in DOMAIN gpio |->
     IF \E i \in 1..n : ProbeSteps[i] = l THEN GpioInit[l] ELSE gpio[l]]

\* jadard_dsi_probe up to and including drm_panel_add.  Step f of
\* ProbeSteps fails with e, or (f = 0) none does.  The log records the calls
\* that change the host's panel list.
ProbeAcquire ==
  /\ bound = "unbound"
  /\ Idle
  /\ \E d \in DescSet, f \in 0..Len(ProbeSteps), e \in BusErrs :
       IF f # 0
         THEN /\ gpio' = GpioAfter(f - 1)
              /\ ret' = IF ProbeSteps[f] = "kzalloc" THEN -ENOMEM ELSE e
              /\ pc' = 0
              /\ log' = <<>>
              /\ UNCHANGED <<bound, registered, desc>>
         ELSE /\ gpio' = GpioAfter(Len(ProbeSteps))
              /\ desc' = d
              /\ registered' = TRUE
              /\ bound' = "adding"
              /\ pc' = 1
              /\ log' = << Rec("drm_panel_add", "", 0, 0) >>
              /\ ret' = 0
  /\ op' = "probe"
  /\ UNCHANGED <<complex_dbg_pattern, host, accum_err, modes, display_info>>

\* Variant of the end of probe, a faulty one: a failed bus attach
\* returns without drm_panel_remove.
ProbeAttach_NoRemove ==
  /\ bound = "adding"
  /\ \E r \in {0} \cup BusErrs :
       /\ ret' = r
       /\ bound' = IF r < 0 THEN "unbound" ELSE "bound"
       /\ log' = Append(log, Rec("mipi_dsi_attach", "", r, 0))
  /\ host' = "off"
  /\ pc' = 0
  /\ UNCHANGED <<registered, desc, gpio, complex_dbg_pattern, op, accum_err,
                 modes, display_info>>

\* ret = mipi_dsi_attach(dsi); if (ret < 0) drm_panel_remove(); return ret;
ProbeAttach ==
  /\ bound = "adding"
  /\ \E r \in {0} \cup BusErrs :
       /\ ret' = r
       /\ registered' = IF r < 0 THEN FALSE ELSE registered
       /\ bound' = IF r < 0 THEN "unbound" ELSE "bound"
       /\ log' = log \o << Rec("mipi_dsi_attach", "", r, 0) >>
                      \o If(r < 0, << Rec("drm_panel_remove", "", 0, 0) >>)
  /\ host' = "off"
  /\ pc' = 0
  /\ UNCHANGED <<desc, gpio, complex_dbg_pattern, op, accum_err, modes,
                 display_info>>

\* jadard_dsi_remove, called with the panel powered down.
Remove ==
  /\ bound = "bound"
  /\ Idle
  /\ host = "off"
  /\ registered' = FALSE
  /\ bound' = "unbound"
  /\ op' = "remove"
  /\ log' = <<>>
  /\ UNCHANGED <<desc, gpio, complex_dbg_pattern, host, pc,
                 accum_err, ret, modes, display_info>>

-----------------------------------------------------------------------------
(* Specification *)

Init ==
  /\ bound = "unbound"
  /\ registered = FALSE
  /\ desc = shenzen_z34014_p30_365t_y1_desc
  /\ gpio = [reset |-> 0, vdd |-> 0, vccio |-> 0, dbg |-> 0]
  /\ complex_dbg_pattern = 0
  /\ host = "off"
  /\ op = "none"
  /\ pc = 0
  /\ accum_err = 0
  /\ ret = 0
  /\ log = <<>>
  /\ modes = <<>>
  /\ display_info = [width_mm |-> 0, height_mm |-> 0]

Next ==
  \/ ProbeAcquire
  \/ ProbeAttach
  \/ Remove
  \/ SetParam
  \/ CallPrepare
  \/ CallDisable
  \/ CallUnprepare
  \/ GpioStep
  \/ SleepStep
  \/ PrInfoStep
  \/ NopStep
  \/ CtxInitStep
  \/ MultiStep
  \/ MultiMsleepStep
  \/ PrErrStep
  \/ ReturnAccumStep
  \/ ReturnStep
  \/ CallGetModes
  \/ GetModesBody

Spec == Init /\ [][Next]_vars

-----------------------------------------------------------------------------
(* Reading the log *)

IsMultiBus(e) == e.k = "bus" /\ e.a # "dcs_nop"
IsBus(e)      == e.k = "bus"
IsSleep(e)    == e.k \in {"msleep", "usleep_range"}
IsIo(e)       == e.k \in {"bus", "msleep", "usleep_range", "gpio"}

BusLog      == SelectSeq(log, IsBus)
MultiBusLog == SelectSeq(log, IsMultiBus)

\* The pre-reset transaction failed, so Prepare returned before the reset.
NopFailed == \E j \in DOMAIN log : log[j].k = "bus" /\ log[j].a = "dcs_nop" /\ log[j].v # 0

In(o)       == bound = "bound" /\ op = o
Returned(o) == In(o) /\ pc = 0

IsPrefix(s, t) == Len(s) <= Len(t) /\ \A i \in 1..Len(s) : s[i] = t[i]

\* An event without the result of its bus transaction.
Shape(e) == IF e.k = "bus" THEN [e EXCEPT !.v = 0] ELSE e
Shapes(s) == [i \in 1..Len(s) |-> Shape(s[i])]

\* Only the last event of s may be a failed bus transaction.
OnlyLastFails(s) == \A i \in 1..Len(s) : (i < Len(s) /\ s[i].k = "bus") => s[i].v = 0
LastFailed(s) == Len(s) > 0 /\ s[Len(s)].k = "bus" /\ s[Len(s)].v # 0

MinOf(S) == CHOOSE x \in S : \A y \in S : x <= y

\* The bus calls of the init routine, and of Disable, in source order.
InitCalls ==
  [i \in 1..(NumInitCmds + 3) |->
     IF i <= NumInitCmds
       THEN Bus("dcs_write_seq", i, 0)
       ELSE << Bus("set_tear_on", 0, 0), Bus("exit_sleep_mode", 0, 0),
               Bus("set_display_on", 0, 0) >>[i - NumInitCmds]]
DisableCalls == << Bus("set_display_off", 0, 0), Bus("enter_sleep_mode", 0, 0) >>
CallsOf(o) == IF o = "prepare" THEN InitCalls ELSE DisableCalls

-----------------------------------------------------------------------------
(* C1 *)

\* C1 as stated: when a multi-write sequence (init routine, Disable) has
\* returned, all N writes were issued on the bus and the status returned is
\* the error of the first failing write.
C1_AllWritesIssued ==
  \A o \in {"prepare", "disable"} :
    (Returned(o) /\ ~NopFailed) =>
      LET B == MultiBusLog
          F == {i \in 1..Len(B) : B[i].v # 0}
      IN  /\ Shapes(B) = CallsOf(o)
          /\ ret = IF F = {} THEN 0 ELSE B[MinOf(F)].v

\* C1, amended: the writes issued are writes 1..k of the sequence, in order,
\* where write k is the first to fail (writes after k are not issued); the
\* status returned is the error of write k; when no write fails all N
\* writes are issued and 0 is returned.
C1_FirstErrorStops ==
  \A o \in {"prepare", "disable"} :
    In(o) =>
      LET B == MultiBusLog IN
        /\ IsPrefix(Shapes(B), CallsOf(o))
        /\ OnlyLastFails(B)
        /\ (pc = 0 /\ ~NopFailed) =>
             IF LastFailed(B)
               THEN ret = B[Len(B)].v
               ELSE Len(B) = Len(CallsOf(o)) /\ ret = 0

\* Prepare returned after register write 7 failed.
C1_Witness ==
  /\ Returned("prepare")
  /\ Len(MultiBusLog) = 7
  /\ MultiBusLog[7].v # 0
  /\ ret = MultiBusLog[7].v

-----------------------------------------------------------------------------
(* C2 *)

ResetPulse ==
  << Gpio("reset", 0), Msleep(5), Gpio("reset", 1), Msleep(10),
     Gpio("reset", 0), Msleep(130) >>

ResetWrites == {j \in DOMAIN log : log[j].k = "gpio" /\ log[j].a = "reset"}
InitEntered == {j \in DOMAIN log : log[j] = PrInfo("Jadard init start sending")}

\* C2: in Prepare, vccio and vdd are both set to 1 before the first write to
\* the reset line; the reset line is driven 0, 1, 0 with waits of 5, 10 and
\* 130 ms after the writes, whatever the descriptor; the init routine is
\* entered only after the 130 ms wait, and is entered in every Prepare that
\* gets past the pre-reset transaction.
C2_PowerThenResetPulse ==
  In("prepare") =>
    /\ \A j \in ResetWrites :
         /\ \E a \in 1..(j - 1) : log[a] = Gpio("vccio", 1)
         /\ \E b \in 1..(j - 1) : log[b] = Gpio("vdd", 1)
    /\ ResetWrites # {} =>
         LET f == MinOf(ResetWrites)
             l == IF Len(log) < f + 5 THEN Len(log) ELSE f + 5
         IN  /\ IsPrefix(SubSeq(log, f, l), ResetPulse)
             /\ \A j \in ResetWrites : j <= f + 5
    /\ \A j \in InitEntered : ResetWrites # {} /\ j = MinOf(ResetWrites) + 6
    /\ (pc = 0 /\ ~NopFailed) => InitEntered # {}

\* Prepare succeeded under a descriptor with both settle delays and the
\* pre-reset transaction.
C2_Witness ==
  /\ Returned("prepare")
  /\ ret = 0
  /\ desc.lp11_before_reset
  /\ desc.vcioo_to_lp11_delay_ms # 0
  /\ desc.lp11_to_reset_delay_ms # 0
  /\ InitEntered # {}

-----------------------------------------------------------------------------
(* C3 *)

DbgPulse == << Gpio("dbg", 1), Usleep(1000, 2000), Gpio("dbg", 0) >>

FirstMultiBus == MinOf({j \in DOMAIN log : IsMultiBus(log[j])})

\* dbg pulses (drive high, 1-2 ms, drive low) issued before log index n.
PulsesBefore(n) ==
  Cardinality({j \in 1..(n - 3) : SubSeq(log, j, j + 2) = DbgPulse})
DbgWritesBefore(n) ==
  Cardinality({j \in 1..(n - 1) : log[j].k = "gpio" /\ log[j].a = "dbg"})

\* The value of complex_dbg_pattern the init routine printed, and so read.
PatternRead ==
  log[CHOOSE j \in DOMAIN log : log[j].a = "Jadard complex_dbg_pattern: %d"].v

\* C3 as stated: with complex_dbg_pattern = 0 no dbg pulse precedes the
\* register sequence, with a non-zero value exactly two do; the register
\* sequence is the same for both.
C3_NoPulseWhenOff ==
  (In("prepare") /\ MultiBusLog # <<>>) =>
    /\ PulsesBefore(FirstMultiBus) = IF PatternRead = 0 THEN 0 ELSE 2
    /\ IsPrefix(Shapes(MultiBusLog), InitCalls)
    /\ (pc = 0 /\ ret = 0) => Shapes(MultiBusLog) = InitCalls

\* C3, amended: with complex_dbg_pattern = 0 exactly one dbg pulse precedes
\* the register sequence, with a non-zero value exactly two do, and dbg is
\* not written otherwise; the register sequence is the same for both.
C3_OnePulseWhenOff ==
  (In("prepare") /\ MultiBusLog # <<>>) =>
    LET n == IF PatternRead = 0 THEN 1 ELSE 2 IN
      /\ PulsesBefore(FirstMultiBus) = n
      /\ DbgWritesBefore(Len(log) + 1) = 2 * n
      /\ IsPrefix(Shapes(MultiBusLog), InitCalls)
      /\ (pc = 0 /\ ret = 0) => Shapes(MultiBusLog) = InitCalls

\* Prepare succeeded with the parameter at 0, after one dbg pulse.
C3_Witness ==
  /\ Returned("prepare")
  /\ ret = 0
  /\ MultiBusLog # <<>>
  /\ PatternRead = 0
  /\ PulsesBefore(FirstMultiBus) = 1

-----------------------------------------------------------------------------
(* C4 *)

\* What Disable does when no command fails: each non-zero delay, and the two
\* commands in order.
DisableFull ==
  If(desc.backlight_off_to_display_off_delay_ms # 0,
     << Msleep(desc.backlight_off_to_display_off_delay_ms) >>)
  \o << Bus("set_display_off", 0, 0) >>
  \o If(desc.display_off_to_enter_sleep_delay_ms # 0,
        << Msleep(desc.display_off_to_enter_sleep_delay_ms) >>)
  \o << Bus("enter_sleep_mode", 0, 0) >>
  \o If(desc.enter_sleep_to_reset_down_delay_ms # 0,
        << Msleep(desc.enter_sleep_to_reset_down_delay_ms) >>)

\* C4 as stated: every Disable sends display off, then enter sleep, and waits
\* each of the three configured delays exactly (none for a delay of zero).
C4_AllDelaysHonoured ==
  Returned("disable") => Shapes(log) = DisableFull

\* C4, amended: Disable performs the steps of DisableFull in order up to and
\* including the first command that fails, and nothing after it: display
\* off precedes enter sleep, each delay reached without a stored error is
\* waited exactly as configured, a zero delay inserts no wait, and the
\* error of the failed command (or 0) is returned.
C4_DelaysUntilError ==
  In("disable") =>
    /\ IsPrefix(Shapes(log), DisableFull)
    /\ OnlyLastFails(log)
    /\ pc = 0 =>
         IF LastFailed(log)
           THEN ret = log[Len(log)].v
           ELSE Shapes(log) = DisableFull /\ ret = 0

\* Disable succeeded under a descriptor whose middle delay is zero and whose
\* other two are not.
C4_Witness ==
  /\ Returned("disable")
  /\ ret = 0
  /\ desc.backlight_off_to_display_off_delay_ms # 0
  /\ desc.display_off_to_enter_sleep_delay_ms = 0
  /\ desc.enter_sleep_to_reset_down_delay_ms # 0
  /\ Len(log) = 4

-----------------------------------------------------------------------------
(* C5 *)

\* C5: when Prepare returns a failure, vccio and vdd are still 1, Prepare
\* has written 0 to neither, and the value returned is the error of the one
\* bus transaction that failed; Prepare returns 0 only when none failed.
C5_NoRollback ==
  Returned("prepare") =>
    /\ OnlyLastFails(BusLog)
    /\ ret = IF LastFailed(BusLog) THEN BusLog[Len(BusLog)].v ELSE 0
    /\ ret # 0 =>
         /\ gpio["vccio"] = 1
         /\ gpio["vdd"] = 1
         /\ \A j \in DOMAIN log :
              log[j] # Gpio("vccio", 0) /\ log[j] # Gpio("vdd", 0)

\* Prepare returned the error of the pre-reset transaction.
C5_Witness ==
  /\ Returned("prepare")
  /\ NopFailed
  /\ ret # 0
  /\ gpio["vdd"] = 1

-----------------------------------------------------------------------------
(* C6 *)

UnprepareFull ==
  << Gpio("reset", 0), Msleep(120) >>
  \o If(desc.reset_before_power_off_vcioo,
        << Gpio("reset", 1), Usleep(1000, 2000) >>)
  \o << Gpio("vdd", 0), Gpio("vccio", 0) >>

\* C6: Unprepare drives reset and waits 120 ms before it clears a power
\* line, makes the extra reset write and 1-2 ms wait exactly when the
\* descriptor sets reset-before-power-off, issues no bus transaction, and
\* returns 0 with vdd and vccio at 0.
C6_UnprepareAlwaysSucceeds ==
  In("unprepare") =>
    /\ IsPrefix(log, UnprepareFull)
    /\ pc = 0 =>
         /\ log = UnprepareFull
         /\ ret = 0
         /\ gpio["vdd"] = 0
         /\ gpio["vccio"] = 0

\* Unprepare returned under a descriptor that sets reset-before-power-off.
C6_Witness ==
  /\ Returned("unprepare")
  /\ desc.reset_before_power_off_vcioo
  /\ Len(log) = 6

-----------------------------------------------------------------------------
(* C7 *)

RegWrites == {j \in DOMAIN log : log[j].k = "bus" /\ log[j].a = "dcs_write_seq"}
LastRegWrite == {j \in RegWrites : log[j].w = NumInitCmds}

\* GPIO, sleep and bus events after log index n.
IoAfter(n) == SelectSeq(SubSeq(log, n + 1, Len(log)), IsIo)

\* C7 as stated: after the register writes the init routine makes three
\* setting calls and two sleeps, 120 ms after exit sleep and 10 ms after
\* display on, and no other sleep after the first register write.
C7_TwoSleeps ==
  (Returned("prepare") /\ ret = 0) =>
    \A n \in LastRegWrite :
      Shapes(IoAfter(n)) =
        << Bus("set_tear_on", 0, 0),
           Bus("exit_sleep_mode", 0, 0), Msleep(120),
           Bus("set_display_on", 0, 0), Msleep(10) >>

InitTail ==
  << Bus("set_tear_on", 0, 0), Msleep(30),
     Bus("exit_sleep_mode", 0, 0), Msleep(120),
     Bus("set_display_on", 0, 0), Msleep(10) >>

\* C7, amended: after the register writes the init routine makes the three
\* setting calls, each followed by a sleep: 30 ms after the tearing-signal
\* call, 120 ms after exit sleep, 10 ms after display on; no sleep occurs
\* between the register writes; a call that fails ends the list (what
\* follows it is skipped).
C7_ThreeSleeps ==
  In("prepare") =>
    /\ \A n \in LastRegWrite :
         /\ IsPrefix(Shapes(IoAfter(n)), InitTail)
         /\ OnlyLastFails(IoAfter(n))
         /\ (pc = 0 /\ ret = 0) => Shapes(IoAfter(n)) = InitTail
    /\ \A i \in RegWrites : \A j \in DOMAIN log :
         (j > i /\ IsSleep(log[j])) => \E n \in LastRegWrite : j > n
    /\ (pc = 0 /\ ret = 0) => LastRegWrite # {}

\* Prepare succeeded: the last register write was followed by the whole
\* tail.
C7_Witness ==
  /\ Returned("prepare")
  /\ ret = 0
  /\ \E n \in LastRegWrite : Len(IoAfter(n)) = 6

-----------------------------------------------------------------------------
(* C8 *)

\* C8: a GetModes call either appends one mode with the descriptor's values
\* (480x1080, 43008 kHz, 42x95 mm), copies 42 and 95 into display_info and
\* returns 1, or returns -ENOMEM and leaves the mode list and display_info
\* as they were.
C8_GetModesOutcomes ==
  [][ (op = "get_modes" /\ pc = 1 /\ pc' = 0) =>
        \/ /\ ret' = 1
           /\ Len(modes') = Len(modes) + 1
           /\ SubSeq(modes', 1, Len(modes)) = modes
           /\ LET m == modes'[Len(modes')] IN
                /\ m.hdisplay = 480 /\ m.vdisplay = 1080
                /\ m.clock = 43008
                /\ m.width_mm = 42 /\ m.height_mm = 95
                /\ [m EXCEPT !.name = ""] = desc.mode
           /\ display_info' = [width_mm |-> 42, height_mm |-> 95]
        \/ /\ ret' = -12
           /\ modes' = modes
           /\ display_info' = display_info ]_vars

\* GetModes returned 1 and the connector holds the mode.
C8_Witness ==
  /\ Returned("get_modes")
  /\ ret = 1
  /\ Len(modes) = 1
  /\ modes[1].name = "480x1080"
  /\ display_info.height_mm = 95

-----------------------------------------------------------------------------
(* C9 *)

PanelAdds    == {j \in DOMAIN log : log[j].k = "drm_panel_add"}
PanelRemoves == {j \in DOMAIN log : log[j].k = "drm_panel_remove"}

\* C9: when probe has returned an error the panel is not on the host's
\* panel list: it was never added, or it was added and removed again.
C9_FailedProbeNotRegistered ==
  (op = "probe" /\ pc = 0 /\ ret # 0) =>
    /\ ~registered
    /\ bound = "unbound"
    /\ Cardinality(PanelAdds) = Cardinality(PanelRemoves)

\* Probe failed at the bus attach, after the panel had been added.
C9_Witness ==
  /\ op = "probe" /\ pc = 0 /\ ret < 0
  /\ PanelAdds # {}
  /\ ~registered

-----------------------------------------------------------------------------
(* C10 *)

PowerLines == {"vdd", "vccio"}

\* C10: every bus transaction is issued while vdd and vccio are both 1; a
\* power line is written 1 only by Prepare and 0 only by Unprepare.
C10_BusOnlyWhilePowered ==
  [][ /\ (Len(log') = Len(log) + 1 /\ log'[Len(log')].k = "bus") =>
           (gpio["vdd"] = 1 /\ gpio["vccio"] = 1)
      /\ (Len(log') = Len(log) + 1 /\ log'[Len(log')].k = "gpio"
            /\ log'[Len(log')].a \in PowerLines) =>
           op = IF log'[Len(log')].v = 1 THEN "prepare" ELSE "unprepare"
      /\ \A l \in PowerLines :
           gpio'[l] # gpio[l] =>
             op = IF gpio'[l] = 1 THEN "prepare" ELSE "unprepare" ]_vars

\* Disable sent both commands, with power on, in a cycle whose Prepare had
\* failed.
C10_Witness ==
  /\ Returned("disable")
  /\ Len(BusLog) = 2
  /\ gpio["vdd"] = 1 /\ gpio["vccio"] = 1
  /\ gpio["reset"] = 1

=============================================================================
